---- MODULE Spec2Model ----
(***************************************************************************)
(* Model of lofty/src/ogg/mod.rs: verify_signature and find_last_page.     *)
(*                                                                         *)
(* The stream is a finite byte sequence with a cursor.  Offsets are         *)
(* 0-based as in the source; the byte at offset p is stream[p + 1].         *)
(* The page codec (ogg_pager: PageHeader::read, Page::read, gen_crc) is     *)
(* not part of mod.rs; it is modelled by a reduced page layout:             *)
(*   marker "OggS" (4) | checksum (1) | segment count n (1) | n lacing      *)
(*   values | content (sum of the lacing values)                            *)
(* CHUNK_SIZE (8192 in the source) is scaled down: the model runs the       *)
(* same loop with chunk sizes MinChunk..MaxChunk.                           *)
(***************************************************************************)
EXTENDS Integers, Sequences, FiniteSets, TLC

\* ------------------------------------------------------------------ bounds
MaxBlocks == 2
MaxCut == 2
MaxStart == 3
MaxChunk == 8
MaxSigLen == 3

\* --------------------------------------------------------------- constants
\* b"Ogg" and b'S' of the capture pattern
ByteO == 79
ByteG == 103
ByteS == 83
\* the smallest chunk that can hold one capture pattern
MinChunk == 4
\* number of bytes by which consecutive chunk windows overlap
Overlap == 3
\* the bound of the early exit of the backward loop
BreakBound == 3

OggS == <<ByteO, ByteG, ByteG, ByteS>>
Ogg == <<ByteO, ByteG, ByteG>>

Min(a, b) == IF a < b THEN a ELSE b

RECURSIVE SumSeq(_)
SumSeq(s) == IF s = <<>> THEN 0 ELSE Head(s) + SumSeq(Tail(s))

\* bytes of s at offsets [from, to)
Slice(s, from, to) == SubSeq(s, from + 1, to)

\* ------------------------------------------------------------- page codec
\* Fixed part of a page header: marker, checksum, segment count.
HeaderFixedLen == 6

NoHeader == [checksum |-> -1, segments |-> <<>>]

\* header.content_size(): the sum of the segment table
ContentSize(h) == SumSeq(h.segments)

\* PageHeader::read at offset p of stream s: the marker, then the fixed
\* fields, then the segment table; any missing byte or a wrong marker fails.
\* len is the number of header bytes consumed.
ParseHeader(s, p) ==
    IF p + 4 > Len(s) THEN [ok |-> FALSE, header |-> NoHeader, len |-> 0]
    ELSE IF Slice(s, p, p + 4) # OggS THEN [ok |-> FALSE, header |-> NoHeader, len |-> 0]
    ELSE IF p + HeaderFixedLen > Len(s) THEN [ok |-> FALSE, header |-> NoHeader, len |-> 0]
    ELSE LET n == s[p + 6]
         IN  IF p + HeaderFixedLen + n > Len(s)
             THEN [ok |-> FALSE, header |-> NoHeader, len |-> 0]
             ELSE [ok |-> TRUE,
                   header |-> [checksum |-> s[p + 5],
                               segments |-> Slice(s, p + HeaderFixedLen, p + HeaderFixedLen + n)],
                   len |-> HeaderFixedLen + n]

\* crc of a page's bytes, the checksum field taken as zero
Crc(h, content) ==
    (SumSeq(OggS) + Len(h.segments) + SumSeq(h.segments) + SumSeq(content)) % 256

\* Page::read at offset p: the header, then exactly content_size bytes.
ReadPage(s, p) ==
    LET ph == ParseHeader(s, p)
    IN  IF ~ph.ok THEN [ok |-> FALSE, header |-> NoHeader, content |-> <<>>]
        ELSE IF p + ph.len + ContentSize(ph.header) > Len(s)
             THEN [ok |-> FALSE, header |-> NoHeader, content |-> <<>>]
             ELSE [ok |-> TRUE, header |-> ph.header,
                   content |-> Slice(s, p + ph.len, p + ph.len + ContentSize(ph.header))]

\* page.gen_crc(): the header with its checksum regenerated from the bytes
GenCrc(page) == [page.header EXCEPT !.checksum = Crc(page.header, page.content)]

\* --------------------------------------------------------- stream inputs
\* A page with a correct checksum.
MakePage(segments, content) ==
    LET h == [checksum |-> 0, segments |-> segments]
    IN  OggS \o <<Crc(h, content), Len(segments)>> \o segments \o content

\* The same page with its stored checksum off by one.
CorruptCrc(page) == [page EXCEPT ![5] = (page[5] + 1) % 256]

\* Building blocks of the input streams: pages (empty, with content, with a
\* bad checksum, with the capture pattern in the content, with a whole
\* header image in the content) and non-page bytes.
Blocks ==
    { MakePage(<<>>, <<>>),
      MakePage(<<2>>, <<1, 2>>),
      CorruptCrc(MakePage(<<>>, <<>>)),
      MakePage(<<4>>, OggS),
      MakePage(<<6>>, OggS \o <<7, 0>>),
      MakePage(<<7>>, OggS \o <<7, 0, 0>>),
      <<ByteS>>,
      <<0, 0, 0>> }

RECURSIVE Concat(_)
Concat(bs) == IF bs = <<>> THEN <<>> ELSE Head(bs) \o Concat(Tail(bs))

BlockSeqs == UNION { [1..n -> Blocks] : n \in 1..MaxBlocks }

\* Streams: up to MaxBlocks blocks, then up to MaxCut bytes cut off the end.
Streams ==
    { Slice(Concat(bs), 0, Len(Concat(bs)) - c) :
        bs \in BlockSeqs, c \in 0..MaxCut }

ChunkSizes == MinChunk..MaxChunk
StartPositions == 0..MaxStart


SigBytes == {ByteO, ByteG}
SigSeqs == UNION { [1..n -> SigBytes] : n \in 0..MaxSigLen }

\* ------------------------------------------------------------------ state
VARIABLES
    stream,            \* the bytes of the underlying stream
    chunk_size,        \* CHUNK_SIZE of this run (scaled)
    pos,               \* the stream's cursor
    fault,             \* the I/O operation that fails once on this run, or "none"
    pc,                \* position in find_last_page
    start_pos, file_len, current_pos, search_start,
    chunk,             \* buffer[..size] of the current iteration
    i,                 \* indices below i of the chunk are still to be scanned
    last_page_header,
    result,            \* the value returned
    examined,          \* history: offsets handed to candidate validation, in order
    page_reads,        \* history: number of Page::read calls
    path,              \* history: which return produced the result
    accepted_at,       \* history: offset at which the returned header was parsed
    io_failed,         \* history: some seek or read of the stream failed
    content, sig, sig_result,  \* verify_signature: arguments and outcome
    calls,             \* which call of find_last_page on this stream is running
    first_result       \* history: what the first call returned

vars ==
    <<stream, chunk_size, pos, fault, pc, start_pos, file_len, current_pos,
      search_start, chunk, i, last_page_header, result, examined, page_reads,
      path, accepted_at, io_failed, content, sig, sig_result, calls,
      first_result>>

locator_vars ==
    <<stream, chunk_size, pos, fault, pc, start_pos, file_len, current_pos,
      search_start, chunk, i, last_page_header, result, examined, page_reads,
      path, accepted_at, io_failed>>

sig_vars == <<content, sig, sig_result>>

call_vars == <<calls, first_result>>

NoResult == [kind |-> "none", err |-> "", header |-> NoHeader]
OkResult(h) == [kind |-> "Ok", err |-> "", header |-> h]
ErrResult(e) == [kind |-> "Err", err |-> e, header |-> NoHeader]

FaultPoints ==
    { "stream_position", "seek_end", "seek_chunk", "read_chunk", "seek_cand",
      "hdr_cand", "position_cand", "seek_page", "page_cand", "seek_fwd",
      "hdr_first", "skip_first", "hdr_next", "skip_next" }

\* whether I/O operation op fails now
Fails(op) == fault = op

LocatorInit(faults) ==
    /\ stream \in Streams
    /\ chunk_size \in ChunkSizes
    /\ pos \in StartPositions
    /\ fault \in faults
    /\ pc = "start"
    /\ start_pos = 0
    /\ file_len = 0
    /\ current_pos = 0
    /\ search_start = 0
    /\ chunk = <<>>
    /\ i = 0
    /\ last_page_header = NoHeader
    /\ result = NoResult
    /\ examined = <<>>
    /\ page_reads = 0
    /\ path = "none"
    /\ accepted_at = -1
    /\ io_failed = FALSE
    /\ calls = 1
    /\ first_result = NoResult

SigIdle ==
    /\ content = <<>>
    /\ sig = <<>>
    /\ sig_result = "none"

\* The state before a call of find_last_page on a working stream.
Init == LocatorInit({"none"}) /\ SigIdle

\* The same, on a stream one of whose I/O operations may fail.
InitIO == LocatorInit(FaultPoints \cup {"none"}) /\ SigIdle

\* return Err(e)
\* (The mutant falls through to the forward fallback after an accept.)
ReturnMutant(r, how, at) ==
    /\ pc' = IF how \in {"end", "crc"} THEN "forward" ELSE "done"
    /\ result' = r
    /\ path' = how
    /\ accepted_at' = at

Return(r, how, at) ==
    /\ pc' = "done"
    /\ result' = r
    /\ path' = how
    /\ accepted_at' = at

\* the `?` of a failed seek or read
Abort ==
    /\ Return(ErrResult("io"), "error", -1)
    /\ io_failed' = TRUE
    /\ fault' = "none"


\* ------------------------------------------------- find_last_page: setup
\* let mut current_pos = file_len;  (The mutant keeps the scan position in
\* state that outlives the call: the next call resumes below the last window.)
InitialCurrentPosMutant(flen) == IF calls = 2 THEN search_start ELSE flen
InitialCurrentPos(flen) == flen

\* let start_pos = data.stream_position()?; let file_len = data.seek(End(0))?;
\* let mut current_pos = file_len;
Start ==
    /\ pc = "start"
    /\ IF Fails("stream_position") \/ Fails("seek_end")
       THEN /\ Abort
            /\ UNCHANGED <<start_pos, file_len, current_pos, pos>>
       ELSE /\ start_pos' = pos
            /\ file_len' = Len(stream)
            /\ current_pos' = InitialCurrentPos(Len(stream))
            /\ pos' = Len(stream)
            /\ pc' = "loop"
            /\ UNCHANGED <<result, path, accepted_at, io_failed, fault>>
    /\ UNCHANGED <<stream, chunk_size, search_start, chunk, i, last_page_header,
                   examined, page_reads, sig_vars, call_vars>>

\* ------------------------------------------------------- backward scan
\* std::cmp::min(CHUNK_SIZE, current_pos - start_pos)
ChunkLen(cur, start, cs) == Min(cs, cur - start)

\* chunk[k] == b'S' && k >= 3 && &chunk[k - 3..k] == b"Ogg"   (k is 0-based)
IsMatchAt(ch, k) ==
    /\ ch[k + 1] = ByteS
    /\ k >= 3
    /\ SubSeq(ch, k - 2, k) = Ogg

\* indices below bound at which the reverse loop over the chunk finds the pattern
MatchesBelow(ch, bound) == { k \in 0..(bound - 1) : IsMatchAt(ch, k) }

MaxOf(S) == CHOOSE x \in S : \A y \in S : y <= x

\* page_end == file_len
EndAlignedMutant(page_end, flen) == page_end >= flen
EndAlignedSlackMutant(page_end, flen) == page_end <= flen /\ flen - page_end <= 1
EndAligned(page_end, flen) == page_end = flen

\* page.header().checksum() == orig
ChecksumMatchesMutant(regenerated, orig) == TRUE
ChecksumMatches(regenerated, orig) == regenerated = orig

\* if search_start < 3 { break; }
StopScan(ss) == ss < BreakBound

\* current_pos = search_start + 3
NextCurrentPosMutant(ss) == ss + (Overlap - 1)
NextCurrentPosWideMutant(ss) == ss + (Overlap + 1)
NextCurrentPos(ss) == ss + Overlap

\* buffer[..size] after read_exact at search_start
ChunkOf(ss, size) == Slice(stream, ss, ss + size)

\* One iteration of the while loop up to the scan of the chunk: the window
\* [search_start, current_pos) is read into the buffer.  A window that runs
\* past the end of the stream makes read_exact fail.
ReadChunk ==
    /\ pc = "loop"
    /\ current_pos > start_pos
    /\ LET size == ChunkLen(current_pos, start_pos, chunk_size)
           ss == current_pos - size
       IN  /\ search_start' = ss
           /\ IF Fails("seek_chunk") \/ Fails("read_chunk") \/ ss + size > file_len
              THEN /\ Abort
                   /\ pos' = ss
                   /\ UNCHANGED <<chunk, i>>
              ELSE /\ chunk' = ChunkOf(ss, size)
                   /\ i' = size
                   /\ pos' = ss + size
                   /\ pc' = "scan"
                   /\ UNCHANGED <<result, path, accepted_at, io_failed, fault>>
    /\ UNCHANGED <<stream, chunk_size, start_pos, file_len, current_pos,
                   last_page_header, examined, page_reads, sig_vars, call_vars>>

\* Err(_) => continue: what a failed PageHeader::read does to the scan
HeaderErrKindMutant == "abort"
HeaderErrKind == "reject"

\* The outcome of validating the candidate at header_start (lines 81-112):
\* kind is "accept", "reject" (the loop continues) or "abort" (a `?` fired).
Validate(header_start) ==
    LET ph == ParseHeader(stream, header_start)
        page_end == header_start + ph.len + ContentSize(ph.header)
        page == ReadPage(stream, header_start)
        Out(kind, how, h, cursor, reads, failed) ==
            [kind |-> kind, how |-> how, header |-> h, pos |-> cursor,
             reads |-> reads, failed |-> failed]
    IN  IF Fails("seek_cand")
        THEN Out("abort", "error", NoHeader, pos, 0, TRUE)
        ELSE IF Fails("hdr_cand")
        THEN Out(HeaderErrKind, "none", NoHeader, header_start, 0, TRUE)
        ELSE IF ~ph.ok
        THEN Out(HeaderErrKind, "none", NoHeader, header_start, 0, FALSE)
        ELSE IF Fails("position_cand")
        THEN Out("abort", "error", NoHeader, header_start + ph.len, 0, TRUE)
        ELSE IF EndAligned(page_end, file_len)
        THEN Out("accept", "end", ph.header, header_start + ph.len, 0, FALSE)
        ELSE IF Fails("seek_page")
        THEN Out("abort", "error", NoHeader, header_start + ph.len, 0, TRUE)
        ELSE IF Fails("page_cand")
        THEN Out("reject", "none", NoHeader, header_start, 1, TRUE)
        ELSE IF ~page.ok
        THEN Out("reject", "none", NoHeader, header_start, 1, FALSE)
        ELSE IF ChecksumMatches(GenCrc(page).checksum, page.header.checksum)
        THEN Out("accept", "crc", GenCrc(page), page_end, 1, FALSE)
        ELSE Out("reject", "none", NoHeader, page_end, 1, FALSE)

\* The reverse loop over the chunk reaches its next occurrence of the
\* pattern and validates the candidate there.
ValidateCandidate ==
    /\ pc = "scan"
    /\ MatchesBelow(chunk, i) # {}
    /\ LET k == MaxOf(MatchesBelow(chunk, i))
           header_start == search_start + (k - 3)
           out == Validate(header_start)
       IN  /\ examined' = Append(examined, header_start)
           /\ page_reads' = page_reads + out.reads
           /\ pos' = out.pos
           /\ i' = k
           /\ io_failed' = (io_failed \/ out.failed)
           /\ fault' = IF out.failed THEN "none" ELSE fault
           /\ IF out.kind = "accept"
              THEN Return(OkResult(out.header), out.how, header_start)
              ELSE IF out.kind = "abort"
              THEN Return(ErrResult("io"), "error", -1)
              ELSE UNCHANGED <<pc, result, path, accepted_at>>
    /\ UNCHANGED <<stream, chunk_size, start_pos, file_len, current_pos,
                   search_start, chunk, last_page_header, sig_vars, call_vars>>

\* The reverse loop over the chunk ends without a return: break, or move
\* the window down.
EndChunk ==
    /\ pc = "scan"
    /\ MatchesBelow(chunk, i) = {}
    /\ i' = 0
    /\ IF StopScan(search_start)
       THEN /\ pc' = "forward"
            /\ UNCHANGED current_pos
       ELSE /\ pc' = "loop"
            /\ current_pos' = NextCurrentPos(search_start)
    /\ UNCHANGED <<stream, chunk_size, pos, fault, start_pos, file_len,
                   search_start, chunk, last_page_header, result, examined,
                   page_reads, path, accepted_at, io_failed, sig_vars, call_vars>>

\* while current_pos > start_pos is false
ExitLoop ==
    /\ pc = "loop"
    /\ ~(current_pos > start_pos)
    /\ pc' = "forward"
    /\ UNCHANGED <<stream, chunk_size, pos, fault, start_pos, file_len,
                   current_pos, search_start, chunk, i, last_page_header,
                   result, examined, page_reads, path, accepted_at, io_failed,
                   sig_vars, call_vars>>

\* ---------------------------------------------------- forward fallback
\* the cursor after data.seek(Current(content_size)) following a header read
\* at p.  (The mutant leaves the cursor behind the header.)
AfterContentMutant(p, ph) == p + ph.len
AfterContent(p, ph) == p + ph.len + ContentSize(ph.header)

\* data.seek(Start(start_pos))?; let mut last_page_header = PageHeader::read(data)?;
\* data.seek(Current(content_size))?;
ForwardFirst ==
    /\ pc = "forward"
    /\ LET ph == ParseHeader(stream, start_pos)
       IN  IF Fails("seek_fwd") \/ Fails("hdr_first")
           THEN /\ Abort
                /\ UNCHANGED <<pos, last_page_header>>
           ELSE IF ~ph.ok
           THEN /\ Return(ErrResult("decode"), "error", -1)
                /\ pos' = start_pos
                /\ UNCHANGED <<last_page_header, io_failed, fault>>
           ELSE IF Fails("skip_first")
           THEN /\ Abort
                /\ pos' = start_pos + ph.len
                /\ UNCHANGED last_page_header
           ELSE /\ last_page_header' = ph.header
                /\ accepted_at' = start_pos
                /\ pos' = AfterContent(start_pos, ph)
                /\ pc' = "fwd_loop"
                /\ UNCHANGED <<result, path, io_failed, fault>>
    /\ UNCHANGED <<stream, chunk_size, start_pos, file_len, current_pos,
                   search_start, chunk, i, examined, page_reads, sig_vars, call_vars>>

\* while let Ok(header) = PageHeader::read(data) { last_page_header = header;
\* data.seek(Current(content_size))?; }  Ok(last_page_header)
ForwardStep ==
    /\ pc = "fwd_loop"
    /\ LET ph == ParseHeader(stream, pos)
       IN  IF Fails("hdr_next")
           THEN /\ Return(OkResult(last_page_header), "forward", accepted_at)
                /\ io_failed' = TRUE
                /\ fault' = "none"
                /\ UNCHANGED <<pos, last_page_header>>
           ELSE IF ~ph.ok
           THEN /\ Return(OkResult(last_page_header), "forward", accepted_at)
                /\ UNCHANGED <<pos, last_page_header, io_failed, fault>>
           ELSE IF Fails("skip_next")
           THEN /\ Abort
                /\ pos' = pos + ph.len
                /\ UNCHANGED last_page_header
           ELSE /\ last_page_header' = ph.header
                /\ accepted_at' = pos
                /\ pos' = AfterContent(pos, ph)
                /\ UNCHANGED <<pc, result, path, io_failed, fault>>
    /\ UNCHANGED <<stream, chunk_size, start_pos, file_len, current_pos,
                   search_start, chunk, i, examined, page_reads, sig_vars, call_vars>>

\* ------------------------------------------------------ verify_signature
\* &content[..n]: indexing past the end of the slice panics
Prefix(c, n) ==
    IF n <= Len(c) THEN [panic |-> FALSE, bytes |-> SubSeq(c, 1, n)]
    ELSE [panic |-> TRUE, bytes |-> <<>>]

\* the same function without the length test
VerifySignatureMutant(c, sg) ==
    IF Prefix(c, Len(sg)).panic THEN "panic"
    ELSE IF Prefix(c, Len(sg)).bytes # sg THEN "missing magic signature"
    ELSE "Ok"

\* if content.len() < sig_len || &content[..sig_len] != sig { bail } Ok(())
VerifySignature(c, sg) ==
    LET sig_len == Len(sg)
    IN  IF Len(c) < sig_len THEN "missing magic signature"
        ELSE IF Prefix(c, sig_len).panic THEN "panic"
        ELSE IF Prefix(c, sig_len).bytes # sg THEN "missing magic signature"
        ELSE "Ok"

\* The state before a call of verify_signature.
InitSig ==
    /\ content \in SigSeqs
    /\ sig \in SigSeqs
    /\ sig_result = "none"
    /\ stream = <<>>
    /\ chunk_size = MinChunk
    /\ pos = 0
    /\ fault = "none"
    /\ pc = "idle"
    /\ start_pos = 0
    /\ file_len = 0
    /\ current_pos = 0
    /\ search_start = 0
    /\ chunk = <<>>
    /\ i = 0
    /\ last_page_header = NoHeader
    /\ result = NoResult
    /\ examined = <<>>
    /\ page_reads = 0
    /\ path = "none"
    /\ accepted_at = -1
    /\ io_failed = FALSE
    /\ calls = 1
    /\ first_result = NoResult

VerifySig ==
    /\ pc = "idle"
    /\ sig_result = "none"
    /\ sig_result' = VerifySignature(content, sig)
    /\ UNCHANGED <<content, sig, locator_vars, call_vars>>

NextSig == VerifySig

SpecSig == InitSig /\ [][NextSig]_vars

\* --------------------------------------------------------- repeated calls
\* The caller seeks back to the position the first call started from and
\* calls find_last_page again on the same stream.  The locals of the first
\* call are left as they were: the second call has to set its own.
CallAgainWith(cs) ==
    /\ pc = "done"
    /\ calls = 1
    /\ calls' = 2
    /\ first_result' = result
    /\ pos' = start_pos
    /\ chunk_size' = cs
    /\ pc' = "start"
    /\ result' = NoResult
    /\ examined' = <<>>
    /\ page_reads' = 0
    /\ path' = "none"
    /\ accepted_at' = -1
    /\ io_failed' = FALSE
    /\ UNCHANGED <<stream, fault, start_pos, file_len, current_pos, search_start,
                   chunk, i, last_page_header, sig_vars>>

CallAgain == CallAgainWith(chunk_size)

\* The same with a build that uses another chunk size.
CallAgainResized == \E cs \in ChunkSizes \ {chunk_size} : CallAgainWith(cs)

Next ==
    \/ Start
    \/ ReadChunk
    \/ ValidateCandidate
    \/ EndChunk
    \/ ExitLoop
    \/ ForwardFirst
    \/ ForwardStep

Spec == Init /\ [][Next]_vars

SpecIO == InitIO /\ [][Next]_vars

NextTwice == Next \/ CallAgain

SpecTwice == Init /\ [][NextTwice]_vars

NextResized == Next \/ CallAgainResized

SpecResized == Init /\ [][NextResized]_vars


\* ------------------------------------------------------------ properties
Returned == pc = "done" /\ result.kind = "Ok"
FromBackward == path \in {"end", "crc"}

\* the page at offset p ends exactly at file_len, or its stored checksum
\* equals the checksum recomputed over its bytes
ValidAt(p) ==
    LET ph == ParseHeader(stream, p)
        page == ReadPage(stream, p)
    IN  /\ ph.ok
        /\ \/ p + ph.len + ContentSize(ph.header) = file_len
           \/ page.ok /\ Crc(page.header, page.content) = page.header.checksum

ValidOffsets == { p \in start_pos..(file_len - 1) : ValidAt(p) }

IsGreatestValid ==
    /\ ValidOffsets # {}
    /\ accepted_at = MaxOf(ValidOffsets)
    /\ result.header = ParseHeader(stream, accepted_at).header

\* C1 (as stated): whichever phase produced it, a returned header is the
\* header of the page with the greatest start offset in [start_pos, file_len)
\* that ends at file_len or has a matching checksum.
C1_ResultIsGreatestValid == Returned => IsGreatestValid

\* C1 (amended): a header returned by the backward scan is the header of the
\* page with the greatest start offset in [start_pos, file_len) that ends at
\* file_len or has a matching checksum.
C1_BackwardResultIsGreatestValid == Returned /\ FromBackward => IsGreatestValid

\* C1 witness: the backward scan returned a page through the checksum
\* comparison after rejecting a candidate at a higher offset.
C1_Witness ==
    /\ Returned
    /\ path = "crc"
    /\ Len(examined) >= 2
    /\ accepted_at < examined[1]


\* C2 (as stated): find_last_page terminates; in particular every iteration
\* of the backward loop that neither returns nor breaks strictly decreases
\* current_pos.
C2_CurrentPosDecreases ==
    [][(pc = "scan" /\ pc' = "loop") => current_pos' < current_pos]_vars

\* C3 (as stated): every returned header, from either phase, belongs to a
\* page whose start + header length + declared content length does not
\* exceed file_len.
PageEndOfResult ==
    accepted_at + ParseHeader(stream, accepted_at).len + ContentSize(result.header)

C3_ResultWithinFile == Returned => PageEndOfResult <= file_len

\* C3 (amended): every header returned by the backward scan (end-alignment
\* or checksum accept) belongs to a page whose start + header length +
\* declared content length does not exceed file_len.
C3_BackwardResultWithinFile ==
    Returned /\ FromBackward =>
        /\ ParseHeader(stream, accepted_at).ok
        /\ PageEndOfResult <= file_len

\* C3 witness: the backward scan first rejected a page whose declared content
\* runs past the end of the stream and then returned a lower page that ends
\* before file_len.
C3_Witness ==
    /\ Returned
    /\ path = "crc"
    /\ PageEndOfResult < file_len
    /\ \E k \in 1..Len(examined) :
          LET ph == ParseHeader(stream, examined[k])
          IN  ph.ok /\ examined[k] + ph.len + ContentSize(ph.header) > file_len


\* whether a whole page with a matching checksum can be read at offset p
ValidPageAt(s, p) ==
    LET page == ReadPage(s, p)
    IN  page.ok /\ Crc(page.header, page.content) = page.header.checksum

PageEndAt(s, p) ==
    p + ParseHeader(s, p).len + ContentSize(ParseHeader(s, p).header)

\* The start offsets of the valid pages that follow one another from offset
\* p, up to the first offset at which no valid page can be read.
RECURSIVE ValidPagesFrom(_, _)
ValidPagesFrom(s, p) ==
    IF ValidPageAt(s, p) THEN <<p>> \o ValidPagesFrom(s, PageEndAt(s, p)) ELSE <<>>

Last(q) == q[Len(q)]

Pages == ValidPagesFrom(stream, start_pos)
LastPageStart == Last(Pages)
PagesEnd == PageEndAt(stream, LastPageStart)

\* contiguous valid pages from start_pos, the last one ending at file_len
WellFormed ==
    /\ pc # "start"
    /\ Pages # <<>>
    /\ PagesEnd = file_len

ReturnsLastPageUnread ==
    /\ page_reads = 0
    /\ pc = "done" =>
          /\ result = OkResult(ParseHeader(stream, LastPageStart).header)
          /\ accepted_at = LastPageStart

\* no header parses at an offset inside the last page above its start
NoHeaderInsideLastPage ==
    \A p \in (LastPageStart + 1)..(file_len - 1) : ~ParseHeader(stream, p).ok

\* C4 (as stated): on a well-formed stream, whatever the payload bytes, the
\* last page's header is returned and no full page is ever read.
C4_WellFormedNoPageRead == WellFormed => ReturnsLastPageUnread

\* C4 (amended): on a well-formed stream in which no header parses at an
\* offset inside the last page above its start, the last page's header is
\* returned and no full page is ever read.
C4_CleanWellFormedNoPageRead ==
    WellFormed /\ NoHeaderInsideLastPage => ReturnsLastPageUnread

\* C4 witness: a stream of two pages, the last one with payload bytes, was
\* answered by the end-alignment test in a chunk other than the first.
C4_Witness ==
    /\ WellFormed
    /\ NoHeaderInsideLastPage
    /\ Len(Pages) = 2
    /\ ContentSize(result.header) > 0
    /\ Returned
    /\ path = "end"
    /\ current_pos < file_len


\* Valid pages from start_pos followed by trailing bytes in which no header
\* parses; no valid page image lies above the last page's start.
TrailingGarbage ==
    /\ pc # "start"
    /\ Pages # <<>>
    /\ PagesEnd < file_len
    /\ \A p \in PagesEnd..(file_len - 1) : ~ParseHeader(stream, p).ok
    /\ \A p \in (LastPageStart + 1)..(file_len - 1) : ~ValidAt(p)

\* C5 (as stated): with trailing non-page bytes after a last page whose
\* checksum matches, that page's header is returned, and it is accepted by
\* the checksum comparison.
C5_TrailingGarbageViaChecksum ==
    TrailingGarbage /\ pc = "done" =>
        /\ result = OkResult(ParseHeader(stream, LastPageStart).header)
        /\ accepted_at = LastPageStart
        /\ path = "crc"

\* the capture pattern occurs inside the content of one of the pages
MarkerInPayload ==
    \E k \in 1..Len(Pages) :
        \E p \in (Pages[k] + ParseHeader(stream, Pages[k]).len)..(PageEndAt(stream, Pages[k]) - 4) :
            Slice(stream, p, p + 4) = OggS

\* C6 (as stated): when the pattern occurs inside a page's payload, the
\* header returned is never one parsed at a payload offset: it is the header
\* of the genuine last page.
C6_PayloadMarkerNeverReturned ==
    (WellFormed \/ TrailingGarbage) /\ MarkerInPayload /\ pc = "done" =>
        /\ Returned
        /\ accepted_at \in { Pages[k] : k \in 1..Len(Pages) }
        /\ accepted_at = LastPageStart


\* the capture pattern starts at offset p of the stream
MarkerAt(p) == p >= 0 /\ p + 4 <= file_len /\ Slice(stream, p, p + 4) = OggS

WasExamined(p) == \E k \in 1..Len(examined) : examined[k] = p

\* C7: while a chunk is being scanned, every occurrence of the pattern at or
\* above the window's start has been handed to validation already or lies
\* ahead of the scan in this chunk; so an occurrence whose bytes are split by
\* the previous window's start is found in the later window, and no
\* occurrence between two consecutive windows is skipped.
C7_NoMarkerSkippedBetweenChunks ==
    pc = "scan" =>
        \A p \in search_start..(file_len - 4) :
            MarkerAt(p) => WasExamined(p) \/ p + 3 < search_start + i

\* C7 witness: the candidate just found in a chunk other than the first has
\* two bytes below and two bytes at or above the previous window's start.
C7_Witness ==
    /\ pc \in {"scan", "done"}
    /\ current_pos < file_len
    /\ examined # <<>>
    /\ i = Last(examined) + 3 - search_start
    /\ Last(examined) = current_pos - 5
    /\ MarkerAt(Last(examined))

\* C8 (as stated): a seek or read failure of the stream always makes
\* find_last_page return an error.
C8_IoFailureAborts == pc = "done" /\ io_failed => result.kind = "Err"

\* The forward procedure alone (lines 126-136) as a function of the stream.
RECURSIVE ForwardLast(_, _, _)
ForwardLast(s, p, last) ==
    LET ph == ParseHeader(s, p)
    IN  IF ph.ok THEN ForwardLast(s, p + ph.len + ContentSize(ph.header), ph.header)
        ELSE last

ForwardScan(s, start) ==
    LET ph == ParseHeader(s, start)
    IN  IF ~ph.ok THEN ErrResult("decode")
        ELSE OkResult(ForwardLast(s, start + ph.len + ContentSize(ph.header), ph.header))

\* a single page at start_pos cut short, nothing in the region acceptable to
\* the backward scan
SinglePageDefeated ==
    /\ pc # "start"
    /\ ParseHeader(stream, start_pos).ok
    /\ PageEndAt(stream, start_pos) > file_len
    /\ ValidOffsets = {}

\* C9 (as stated): on contiguous valid pages the call returns what a pure
\* forward scan from start_pos returns, and on a single page cut short it
\* returns that header through the forward fallback.
C9_BackwardEqualsForward ==
    pc = "done" =>
        /\ WellFormed => result = ForwardScan(stream, start_pos)
        /\ SinglePageDefeated =>
              result = ForwardScan(stream, start_pos) /\ path = "forward"

\* C10: verify_signature succeeds exactly when content is at least as long
\* as sig and its first len(sig) bytes equal sig; otherwise it fails with the
\* missing-signature error; it never indexes out of bounds, and an empty sig
\* always succeeds.
C10_VerifySignature ==
    sig_result # "none" =>
        /\ sig_result \in {"Ok", "missing magic signature"}
        /\ sig_result = "Ok" <=>
              /\ Len(content) >= Len(sig)
              /\ \A k \in 1..Len(sig) : content[k] = sig[k]
        /\ sig = <<>> => sig_result = "Ok"

\* C10 witness: a content shorter than the signature was refused.
C10_Witness ==
    /\ sig_result = "missing magic signature"
    /\ content # <<>>
    /\ Len(content) < Len(sig)
    /\ \A k \in 1..Len(content) : content[k] = sig[k]


C16_ChunkSizeIrrelevant ==
    calls = 2 /\ pc = "done" =>
        /\ result.kind = first_result.kind
        /\ result.header = first_result.header


\* C12 (as stated): when the forward fallback starts, every offset p with
\* start_pos <= p <= file_len - 4 at which the pattern occurs has been
\* examined as a candidate (and rejected).
C12_FallbackAfterWholeRegion ==
    pc = "forward" =>
        \A p \in start_pos..(file_len - 4) : MarkerAt(p) => WasExamined(p)

\* C13: a header returned by the backward scan was parsed at a candidate
\* offset and either its page ends exactly at file_len or the full page was
\* read and its recomputed checksum equals the stored one; a candidate whose
\* page_end differs from file_len is never accepted without that match.
C13_BackwardAcceptIsJustified ==
    Returned /\ FromBackward =>
        /\ WasExamined(accepted_at)
        /\ ParseHeader(stream, accepted_at).ok
        /\ result.header = ParseHeader(stream, accepted_at).header
        /\ path = "end" => PageEndAt(stream, accepted_at) = file_len
        /\ path = "crc" => ValidPageAt(stream, accepted_at)
        /\ PageEndAt(stream, accepted_at) # file_len =>
              page_reads >= 1 /\ ValidPageAt(stream, accepted_at)

\* C13 witness: a candidate that parsed, ended before file_len and failed
\* the checksum comparison was passed over, and a lower candidate ending at
\* file_len was returned.
C13_Witness ==
    /\ Returned
    /\ path = "end"
    /\ Len(examined) >= 2
    /\ ParseHeader(stream, examined[1]).ok
    /\ PageEndAt(stream, examined[1]) < file_len
    /\ ~ValidPageAt(stream, examined[1])


\* a candidate the backward scan has to discard: no header parses there, or
\* its page does not end at file_len and no full page with a matching
\* checksum can be read
RejectedCandidate(p) ==
    \/ ~ParseHeader(stream, p).ok
    \/ PageEndAt(stream, p) # file_len /\ ~ValidPageAt(stream, p)

\* C14: validating a candidate that has to be discarded leaves the call in
\* the scan of the same chunk with nothing returned, and the occurrences of
\* the pattern below it in the chunk are still ahead of the scan.
C14_RejectionIsLocal ==
    [][(pc = "scan" /\ Len(examined') = Len(examined) + 1
            /\ RejectedCandidate(Last(examined')))
        => /\ pc' = "scan"
           /\ result' = NoResult
           /\ <<chunk', search_start', current_pos'>> = <<chunk, search_start, current_pos>>
           /\ MatchesBelow(chunk', i') =
                 MatchesBelow(chunk, i) \ {Last(examined') + 3 - search_start}]_vars

\* C14 witness: a candidate was discarded and a lower occurrence of the
\* pattern in the same chunk is still to be validated.
C14_Witness ==
    /\ pc = "scan"
    /\ examined # <<>>
    /\ RejectedCandidate(Last(examined))
    /\ Last(examined) >= search_start
    /\ MatchesBelow(chunk, i) # {}


\* The chain of offsets o0 = p, o(k+1) = o(k) + header length + declared
\* content length, for as long as a header parses at o(k).
RECURSIVE Chain(_, _)
Chain(s, p) ==
    LET ph == ParseHeader(s, p)
    IN  IF ph.ok THEN <<p>> \o Chain(s, p + ph.len + ContentSize(ph.header))
        ELSE <<>>

InChain(p) == \E k \in 1..Len(Chain(stream, start_pos)) : Chain(stream, start_pos)[k] = p

\* C15: the forward fallback walks the chain from start_pos and returns the
\* header parsed at its last offset; it fails exactly when no header parses
\* at start_pos, with the error of that first header read.
C15_ForwardWalksChain ==
    /\ pc = "fwd_loop" =>
          /\ Chain(stream, start_pos) # <<>>
          /\ InChain(accepted_at)
          /\ last_page_header = ParseHeader(stream, accepted_at).header
          /\ pos = PageEndAt(stream, accepted_at)
    /\ pc = "done" /\ path = "forward" =>
          /\ Chain(stream, start_pos) # <<>>
          /\ accepted_at = Last(Chain(stream, start_pos))
          /\ result = OkResult(ParseHeader(stream, accepted_at).header)
    /\ pc = "done" /\ result = ErrResult("decode") => Chain(stream, start_pos) = <<>>

\* C15 witness: the fallback returned the header of the second page of a
\* chain after stepping over the first page's content.
C15_Witness ==
    /\ Returned
    /\ path = "forward"
    /\ Len(Chain(stream, start_pos)) >= 2
    /\ ContentSize(ParseHeader(stream, start_pos).header) > 0


InForward == pc \in {"forward", "fwd_loop"}

\* C17: the backward scan comes first and the forward scan second, neither
\* is entered again: an accept of the backward scan ends the call at once,
\* the forward scan is entered from the backward scan only, and once it has
\* started no chunk is read and no candidate is validated.
C17_PhaseOrder ==
    [][/\ path' \in {"end", "crc"} => pc = "scan" /\ pc' = "done"
       /\ pc' = "forward" => pc \in {"loop", "scan"}
       /\ InForward =>
             /\ pc' \in {"fwd_loop", "done"}
             /\ path' \notin {"end", "crc"}
             /\ <<examined', page_reads', chunk', search_start', current_pos'>>
                   = <<examined, page_reads, chunk, search_start, current_pos>>
       /\ pc = "done" => pc' = "done"]_vars

\* C17 witness: the call ended in the forward scan after the backward scan
\* had read more than one chunk and discarded a candidate whose page it read.
C17_Witness ==
    /\ pc = "done"
    /\ path = "forward"
    /\ examined # <<>>
    /\ page_reads >= 1
    /\ current_pos < file_len


\* C18: the offsets handed to validation over the whole backward scan are
\* strictly decreasing: none is validated twice, none after a lower one.
C18_ExaminedStrictlyDecreasing ==
    \A k \in 1..(Len(examined) - 1) : examined[k] > examined[k + 1]

\* C18 witness: a candidate of an earlier window and a candidate of the
\* current window have both been validated.
C18_Witness ==
    /\ pc = "scan"
    /\ Len(examined) >= 2
    /\ examined[1] + 4 > current_pos
    /\ Last(examined) >= search_start
    /\ Last(examined) + 4 <= current_pos


\* C19 (as stated): in every iteration of the backward loop
\* 1 <= size <= CHUNK_SIZE, start_pos <= search_start,
\* search_start + size = current_pos <= file_len, the subtractions do not
\* underflow, and every candidate offset lies in start_pos..file_len - 4.
C19_WindowInsideRegion ==
    /\ pc = "loop" /\ current_pos > start_pos => current_pos <= file_len
    /\ pc = "scan" =>
          /\ 1 <= Len(chunk) /\ Len(chunk) <= chunk_size
          /\ start_pos <= search_start
          /\ search_start + Len(chunk) = current_pos
          /\ current_pos <= file_len
    /\ \A k \in 1..Len(examined) :
          start_pos <= examined[k] /\ examined[k] <= file_len - 4

====
